---- MODULE Spec2Model ----
(***************************************************************************)
(* A model of ctru-rs: the framebuffer rotation of the camera example, the *)
(* service handles Hid / Apt / McuHwc, the Hid input queries and the       *)
(* camera set-up and capture sequence of examples/camera-image.rs.         *)
(***************************************************************************)
EXTENDS Integers, Sequences, FiniteSets, TLC

VARIABLES
    \* ---- rotate_image_to_screen (examples/camera-image.rs) ----
    width,      \* the width argument of the current call
    height,     \* the height argument of the current call
    src,        \* the source byte buffer, offsets 0 .. 2*width*height - 1
    framebuf,   \* the destination byte region
    writes,     \* per destination byte: how many times the last call wrote it
    oob,        \* accesses of the last call that fell outside src / framebuf
    lastRead,   \* the source offset the last turn of the loop read from
    lastWrite,  \* the destination offset the last turn of the loop wrote to
    lastDrawY,  \* the draw_y the last turn of the loop computed
    orig,       \* the buffer the first call was given
    j,          \* the row the outer loop is at
    i,          \* the column the inner loop is at
    pass,       \* how many calls have returned
    phase       \* "loop": a call is running, "rotated": it has returned

VARIABLES
    \* ---- the service handles Hid, Apt, McuHwc (src/services/*.rs) ----
    handles,    \* per service: the handles new() has returned, in order
    nInit,      \* per service: calls of hidInit / aptInit / mcuHwcInit
    nOk,        \* per service: the init calls that reported success
    nExit,      \* per service: calls of hidExit / aptExit / mcuHwcExit
    status,     \* per service: the status the last init call reported
    liveAtCall, \* per service: live handles when the last new() was called
    result,     \* per service: what the last new() / drop gave its caller
    exitFailed  \* per service: whether the last teardown failed inside

VARIABLES
    \* ---- the Hid input state (src/services/hid.rs) ----
    kHeld,      \* the raw keys of the last scan
    kOld,       \* the raw keys of the scan before it
    kDown,      \* the keys the last scan found newly pressed
    kUp,        \* the keys the last scan found newly released
    tPos,       \* the touch position the last scan stored
    cPos,       \* the circle pad position the last scan stored
    hist,       \* the raw keys handed to the last MaxHist scans, oldest first
    snapAtScan, \* the stored input state as the last scan left it
    seen        \* per query: the answer it gave since the last scan, if any

VARIABLES
    \* ---- the camera of examples/camera-image.rs ----
    camState,   \* "Unconfigured", "Configured" or "Capturing"
    settings,   \* the six settings of the camera unit
    cfgCall,    \* the last configuration: its number, inputs, old settings
    cfgResult,  \* what the last configuration reported
    capCall,    \* the last capture: its number, arguments and result
    buf,        \* what the capture buffer holds
    hwCalls,    \* the service calls made so far, by kind
    sound,      \* what the last play_shutter_sound returned
    nOps        \* camera operations called so far

VARIABLES
    hookPc,        \* where the panic hook is: "armed", "waiting", "returned"
    onMainThread,  \* the panicking thread is the one that installed the hook
    consoleExists, \* what Console::exists() answered
    hookTried,     \* the hook has called Hid::new
    hookHandle,    \* the handle the hook's Hid::new returned, 0 if none
    hookOut,       \* what the hook has printed
    hookScanned,   \* the hook has called scan_input
    appHandles     \* the handles the application acquired

rotVars ==
    <<width, height, src, framebuf, writes, oob, lastRead, lastWrite,
      lastDrawY, orig, j, i, pass, phase>>

svcVars == <<handles, nInit, nOk, nExit, status, liveAtCall, result, exitFailed>>

hidVars == <<kHeld, kOld, kDown, kUp, tPos, cPos, hist, snapAtScan, seen>>

camVars ==
    <<camState, settings, cfgCall, cfgResult, capCall, buf, hwCalls, sound,
      nOps>>

hookVars ==
    <<hookPc, onMainThread, consoleExists, hookTried, hookHandle, hookOut,
      hookScanned, appHandles>>

vars == <<rotVars, svcVars, hidVars, camVars, hookVars>>

(***************************************************************************)
(* Bounds                                                                  *)
(***************************************************************************)
MaxDim == 3
MaxNew == 3
MaxHist == 3
MaxOps == 4

(***************************************************************************)
(* rotate_image_to_screen                                                  *)
(***************************************************************************)

\* A byte buffer of n bytes whose byte at offset k is (a*k + b) mod 256.
PatternBuffer(n, a, b) == [k \in 0 .. n - 1 |-> (a * k + b) % 256]

\* The source contents the calls are tried on: constant, distinct and
\* repeating byte patterns.
SrcBuffers(w, h) ==
    { PatternBuffer(2 * w * h, a, b) : a \in {0, 1, 3}, b \in {0, 7} }

\* What the framebuffer holds before the call.
FillBytes == {170, 255}

Pixel(b, p) == <<b[2 * p], b[2 * p + 1]>>

\* let draw_y = (height - 1) - j;
DrawY_NoFlip(h, row) == row

DrawY_OffByOne(h, row) == h - row

DrawY(h, row) == (h - 1) - row

\* let read_index = (j * width + i) * 2;
ReadIndex(row, w, col) == (row * w + col) * 2

\* let draw_index = (draw_x * height + draw_y) * 2;
DrawIndex(draw_x, h, draw_y) == (draw_x * h + draw_y) * 2

\* pixel_pointer.copy_from(src.as_ptr().offset(read_index), count), one byte
\* at a time; st is [buf, writes, oob].
RECURSIVE CopyFrom(_, _, _, _, _)
CopyFrom(st, to, s, from, count) ==
    IF count = 0 THEN st
    ELSE LET inside == to \in DOMAIN st.buf /\ from \in DOMAIN s
             st1 == IF inside
                    THEN [st EXCEPT !.buf[to] = s[from],
                                    !.writes[to] = st.writes[to] + 1]
                    ELSE [st EXCEPT !.oob = st.oob + 1]
         IN  CopyFrom(st1, to + 1, s, from + 1, count - 1)

\* The body of the inner loop for one (j, i).
PixelStep_OneByte(st, s, w, h, row, col) ==
    CopyFrom(st, DrawIndex(col, h, DrawY(h, row)), s, ReadIndex(row, w, col), 1)

PixelStep(st, s, w, h, row, col) ==
    LET draw_y == DrawY(h, row)
        draw_x == col
        read_index == ReadIndex(row, w, col)
        draw_index == DrawIndex(draw_x, h, draw_y)
    IN  CopyFrom(st, draw_index, s, read_index, 2)

RotInit ==
    /\ width \in 1 .. MaxDim
    /\ height \in 1 .. MaxDim
    /\ src \in SrcBuffers(width, height)
    /\ orig = src
    /\ \E f \in FillBytes : framebuf = [k \in DOMAIN src |-> f]
    /\ writes = [k \in DOMAIN src |-> 0]
    /\ oob = 0
    /\ lastRead = 0 /\ lastWrite = 0 /\ lastDrawY = 0
    /\ j = 0
    /\ i = 0
    /\ pass = 0
    /\ phase = "loop"

\* rotate_image_to_screen: one turn of
\*   for j in 0..height { for i in 0..width { .. } }
\* The call returns when the last turn is done.
rotate_image_to_screen ==
    /\ phase = "loop"
    /\ j < height /\ i < width
    /\ LET st == PixelStep([buf |-> framebuf, writes |-> writes, oob |-> oob],
                           src, width, height, j, i)
       IN  /\ framebuf' = st.buf
           /\ writes' = st.writes
           /\ oob' = st.oob
    /\ lastDrawY' = DrawY(height, j)
    /\ lastRead' = ReadIndex(j, width, i)
    /\ lastWrite' = DrawIndex(i, height, DrawY(height, j))
    /\ IF i + 1 < width
       THEN /\ i' = i + 1
            /\ UNCHANGED <<j, phase, pass>>
       ELSE /\ i' = 0
            /\ j' = j + 1
            /\ IF j + 1 < height
               THEN UNCHANGED <<phase, pass>>
               ELSE phase' = "rotated" /\ pass' = pass + 1
    /\ UNCHANGED <<width, height, src, orig>>
    /\ UNCHANGED <<svcVars, hidVars, camVars, hookVars>>

\* The destination of one call becomes the source of the next, with width
\* and height swapped, and a framebuffer holding f everywhere.
FeedBack ==
    /\ phase = "rotated"
    /\ pass < 4
    /\ src' = framebuf
    /\ \E f \in FillBytes : framebuf' = [k \in DOMAIN framebuf |-> f]
    /\ width' = height
    /\ height' = width
    /\ writes' = [k \in DOMAIN framebuf |-> 0]
    /\ oob' = 0
    /\ lastRead' = 0 /\ lastWrite' = 0 /\ lastDrawY' = 0
    /\ j' = 0
    /\ i' = 0
    /\ phase' = "loop"
    /\ UNCHANGED <<orig, pass>>
    /\ UNCHANGED <<svcVars, hidVars, camVars, hookVars>>

RotNext == rotate_image_to_screen \/ FeedBack

\* The state of the rotation when no call is being looked at.
RotIdle ==
    /\ width = 1 /\ height = 1
    /\ src = PatternBuffer(2, 0, 0)
    /\ orig = src
    /\ framebuf = src
    /\ writes = [k \in DOMAIN src |-> 0]
    /\ oob = 0
    /\ lastRead = 0 /\ lastWrite = 0 /\ lastDrawY = 0
    /\ j = 0
    /\ i = 0
    /\ pass = 0
    /\ phase = "loop"

(***************************************************************************)
(* Service handles: Hid, Apt, McuHwc                                       *)
(***************************************************************************)

Services == {"Hid", "Apt", "McuHwc"}

\* The statuses an init call of the service layer can report.
StatusCodes == {0, -1, -2}

\* How control can leave the scope that owns a handle.
ExitPaths == {"return", "error", "unwind"}

\* ResultCode(status)? : continue on the success status, else leave with an
\* error made of the status.
ResultCodeOk(rc) == rc = 0

ErrorFrom(rc) == [op |-> "new", ok |-> FALSE, code |-> rc]

OkHandle == [op |-> "new", ok |-> TRUE, code |-> 0]

Unit == [op |-> "drop", ok |-> TRUE, code |-> 0]

NoResult == [op |-> "none", ok |-> TRUE, code |-> 0]

LiveSet(s) == {k \in DOMAIN handles[s] : handles[s][k].st = "live"}

Live(s) == Cardinality(LiveSet(s))

TotalInit == nInit["Hid"] + nInit["Apt"] + nInit["McuHwc"]

SvcInit ==
    /\ handles = [s \in Services |-> <<>>]
    /\ nInit = [s \in Services |-> 0]
    /\ nOk = [s \in Services |-> 0]
    /\ nExit = [s \in Services |-> 0]
    /\ status = [s \in Services |-> 0]
    /\ liveAtCall = [s \in Services |-> 0]
    /\ result = [s \in Services |-> NoResult]
    /\ exitFailed = [s \in Services |-> FALSE]

\* The init call reported rc: what new() does with it.
NewReturns_IgnoresStatus(s, rc) ==
    /\ handles' = [handles EXCEPT
                      ![s] = Append(@, [st |-> "live", exits |-> 0,
                                        path |-> "none"])]
    /\ result' = [result EXCEPT ![s] = OkHandle]

NewReturns_FixedCode(s, rc) ==
    IF ResultCodeOk(rc)
    THEN /\ handles' = [handles EXCEPT
                           ![s] = Append(@, [st |-> "live", exits |-> 0,
                                             path |-> "none"])]
         /\ result' = [result EXCEPT ![s] = OkHandle]
    ELSE /\ handles' = handles
         /\ result' = [result EXCEPT ![s] = ErrorFrom(-1)]

NewReturns(s, rc) ==
    IF ResultCodeOk(rc)
    THEN \* Ok(Hid(()))
         /\ handles' = [handles EXCEPT
                           ![s] = Append(@, [st |-> "live", exits |-> 0,
                                             path |-> "none"])]
         /\ result' = [result EXCEPT ![s] = OkHandle]
    ELSE \* the ? operator returns the error; no handle is constructed
         /\ handles' = handles
         /\ result' = [result EXCEPT ![s] = ErrorFrom(rc)]

\* Hid::new / Apt::new / McuHwc::new: one init call, whose status the
\* service layer chooses, then ResultCode(..)? and Ok(handle).
NewCall(s, rc) ==
    /\ nInit' = [nInit EXCEPT ![s] = @ + 1]
    /\ nOk' = [nOk EXCEPT ![s] = IF rc = 0 THEN @ + 1 ELSE @]
    /\ status' = [status EXCEPT ![s] = rc]
    /\ liveAtCall' = [liveAtCall EXCEPT ![s] = Live(s)]
    /\ NewReturns(s, rc)
    /\ UNCHANGED <<nExit, exitFailed>>

New(s) ==
    /\ TotalInit < MaxNew
    /\ \E rc \in StatusCodes : NewCall(s, rc)
    /\ UNCHANGED <<rotVars, hidVars, camVars, hookVars>>

\* What drop does to the handle k of service s.
DropBody_NoExit(s, k, p) ==
    /\ handles' = [handles EXCEPT ![s][k] = [st |-> "dropped",
                                             exits |-> @.exits,
                                             path |-> p]]
    /\ nExit' = nExit
    /\ exitFailed' = exitFailed

DropBody(s, k, p) ==
    \* unsafe { ctru_sys::hidExit() };
    /\ handles' = [handles EXCEPT ![s][k] = [st |-> "dropped",
                                             exits |-> @.exits + 1,
                                             path |-> p]]
    /\ nExit' = [nExit EXCEPT ![s] = @ + 1]
    /\ \E f \in BOOLEAN : exitFailed' = [exitFailed EXCEPT ![s] = f]

\* impl Drop: the scope owning the live handle k ends by the path p.
DropCall(s, k, p) ==
    /\ DropBody(s, k, p)
    /\ result' = [result EXCEPT ![s] = Unit]
    /\ UNCHANGED <<nInit, nOk, status, liveAtCall>>

Drop(s) ==
    \E k \in LiveSet(s) : \E p \in ExitPaths :
        /\ DropCall(s, k, p)
        /\ UNCHANGED <<rotVars, hidVars, camVars, hookVars>>

HidNew == New("Hid")
AptNew == New("Apt")
McuHwcNew == New("McuHwc")
HidDrop == Drop("Hid")
AptDrop == Drop("Apt")
McuHwcDrop == Drop("McuHwc")

SvcNext ==
    \/ HidNew
    \/ AptNew
    \/ McuHwcNew
    \/ HidDrop
    \/ AptDrop
    \/ McuHwcDrop

(***************************************************************************)
(* Hid: scan_input and the queries                                         *)
(***************************************************************************)

\* The bits KeyPad names (bitflags! KeyPad: u32), by the name of their
\* ctru_sys constant.
KeyPadAll ==
    {"KEY_A", "KEY_B", "KEY_SELECT", "KEY_START", "KEY_DRIGHT", "KEY_DLEFT",
     "KEY_DUP", "KEY_DDOWN", "KEY_R", "KEY_L", "KEY_X", "KEY_Y", "KEY_ZL",
     "KEY_ZR", "KEY_TOUCH", "KEY_CSTICK_RIGHT", "KEY_CSTICK_LEFT",
     "KEY_CSTICK_UP", "KEY_CSTICK_DOWN", "KEY_CPAD_RIGHT", "KEY_CPAD_LEFT",
     "KEY_CPAD_UP", "KEY_CPAD_DOWN"}

\* The raw u32 values a scan is tried on, as sets of bits; BIT12 is a bit
\* of the u32 that KeyPad does not name.
RawSamples ==
    { {}, {"KEY_A"}, {"KEY_A", "KEY_B"}, {"KEY_B"}, {"KEY_SELECT"},
      {"KEY_A", "BIT12"} }

TouchSamples == { <<0, 0>>, <<120, 80>> }

CircleSamples == { <<0, 0>>, <<-20, 35>> }

\* KeyPad::from_bits_truncate: the bits KeyPad does not name are dropped.
from_bits_truncate(keys) == keys \cap KeyPadAll

\* The single-bit direction flags of KeyPad.
KeyPad_SELECT == {"KEY_SELECT"}

KeyPad_DPAD_RIGHT == {"KEY_DRIGHT"}
KeyPad_DPAD_LEFT == {"KEY_DLEFT"}
KeyPad_DPAD_UP == {"KEY_DUP"}
KeyPad_DPAD_DOWN == {"KEY_DDOWN"}
KeyPad_CSTICK_RIGHT == {"KEY_CSTICK_RIGHT"}
KeyPad_CSTICK_LEFT == {"KEY_CSTICK_LEFT"}
KeyPad_CSTICK_UP == {"KEY_CSTICK_UP"}
KeyPad_CSTICK_DOWN == {"KEY_CSTICK_DOWN"}
KeyPad_CPAD_RIGHT == {"KEY_CPAD_RIGHT"}
KeyPad_CPAD_LEFT == {"KEY_CPAD_LEFT"}
KeyPad_CPAD_UP == {"KEY_CPAD_UP"}
KeyPad_CPAD_DOWN == {"KEY_CPAD_DOWN"}

\* const UP = KeyPad::DPAD_UP.bits() | KeyPad::CPAD_UP.bits();
KeyPad_UP_Alias == KeyPad_DPAD_UP

KeyPad_UP == KeyPad_DPAD_UP \cup KeyPad_CPAD_UP

\* const DOWN = KeyPad::DPAD_DOWN.bits() | KeyPad::CPAD_DOWN.bits();
KeyPad_DOWN == KeyPad_DPAD_DOWN \cup KeyPad_CPAD_DOWN

\* const LEFT = KeyPad::DPAD_LEFT.bits() | KeyPad::CPAD_LEFT.bits();
KeyPad_LEFT == KeyPad_DPAD_LEFT \cup KeyPad_CPAD_LEFT

\* const RIGHT = KeyPad::DPAD_RIGHT.bits() | KeyPad::CPAD_RIGHT.bits();
KeyPad_RIGHT == KeyPad_DPAD_RIGHT \cup KeyPad_CPAD_RIGHT

\* keys.contains(flag): every bit of the flag is set in keys.
Contains(keys, flag) == flag \subseteq keys

\* The raw keys the direction flags are tried on: every combination of the
\* three "up" bits, and some of the other directions.
DirSamples ==
    (SUBSET {"KEY_DUP", "KEY_CPAD_UP", "KEY_CSTICK_UP"})
    \cup { {"KEY_DDOWN"}, {"KEY_CPAD_DOWN"}, {"KEY_DDOWN", "KEY_CPAD_DOWN"},
           {"KEY_CSTICK_DOWN"}, {"KEY_DLEFT", "KEY_CPAD_LEFT"},
           {"KEY_CSTICK_LEFT", "KEY_DLEFT"},
           {"KEY_DRIGHT", "KEY_CPAD_RIGHT"},
           {"KEY_CSTICK_RIGHT", "KEY_CPAD_RIGHT"} }

\* The service layer's getters: they read what the last scan stored.
hidKeysDown == kDown
hidKeysHeld == kHeld
hidKeysUp == kUp
hidTouchRead == tPos
hidCircleRead == cPos

\* The service layer's scan: the edge sets come from the raw keys of this
\* scan and of the one before.
hidScanInput(raw, t, c) ==
    /\ kOld' = kHeld
    /\ kHeld' = raw
    /\ kDown' = raw \ kHeld
    /\ kUp' = kHeld \ raw
    /\ tPos' = t
    /\ cPos' = c

keys_down == from_bits_truncate(hidKeysDown)

keys_held == from_bits_truncate(hidKeysHeld)

keys_up_ReturnsDown == from_bits_truncate(hidKeysDown)

keys_up == from_bits_truncate(hidKeysUp)

touch_position == hidTouchRead

circlepad_position == hidCircleRead

Queries ==
    {"keys_down", "keys_held", "keys_up", "touch_position",
     "circlepad_position"}

\* An answer is kept as a one-element sequence, no answer as the empty one.
NoAnswer == <<>>

Answer(q) ==
    CASE q = "keys_down" -> keys_down
      [] q = "keys_held" -> keys_held
      [] q = "keys_up" -> keys_up
      [] q = "touch_position" -> touch_position
      [] q = "circlepad_position" -> circlepad_position

Snapshot == <<kHeld, kOld, kDown, kUp, tPos, cPos>>

PushHist(h, raw) ==
    IF Len(h) < MaxHist THEN Append(h, raw) ELSE Append(Tail(h), raw)

HidInit ==
    /\ kHeld = {} /\ kOld = {} /\ kDown = {} /\ kUp = {}
    /\ tPos = <<0, 0>>
    /\ cPos = <<0, 0>>
    /\ hist = <<>>
    /\ snapAtScan = <<{}, {}, {}, {}, <<0, 0>>, <<0, 0>>>>
    /\ seen = [q \in Queries |-> NoAnswer]

\* Hid::scan_input(&mut self) on the input (raw, t, c) the hardware shows at
\* the time of the call.
ScanCall(raw, t, c) ==
    /\ hidScanInput(raw, t, c)
    /\ hist' = PushHist(hist, raw)
    /\ snapAtScan' = <<kHeld', kOld', kDown', kUp', tPos', cPos'>>
    /\ seen' = [q \in Queries |-> NoAnswer]

\* Hid::scan_input(&mut self): the input of this frame is what the hardware
\* shows at the time of the call.
scan_input ==
    \E raw \in RawSamples : \E t \in TouchSamples : \E c \in CircleSamples :
        /\ ScanCall(raw, t, c)
        /\ UNCHANGED <<rotVars, svcVars, camVars, hookVars>>

\* A query taking &self: it reads the stored state and returns.
Ask_Polls(q) ==
    \E raw \in RawSamples :
        /\ hidScanInput(raw, tPos, cPos)
        /\ seen' = [seen EXCEPT ![q] = <<from_bits_truncate(raw \ kHeld)>>]
        /\ UNCHANGED <<hist, snapAtScan>>

Ask(q) ==
    /\ seen' = [seen EXCEPT ![q] = <<Answer(q)>>]
    /\ UNCHANGED <<kHeld, kOld, kDown, kUp, tPos, cPos, hist, snapAtScan>>

OutsideHid == UNCHANGED <<rotVars, svcVars, camVars, hookVars>>

KeysDownQuery == Ask("keys_down") /\ OutsideHid
KeysHeldQuery == Ask("keys_held") /\ OutsideHid
KeysUpQuery == Ask("keys_up") /\ OutsideHid
TouchQuery == Ask("touch_position") /\ OutsideHid
CircleQuery == Ask("circlepad_position") /\ OutsideHid

\* Hid::scan_input(&mut self) while direction keys are pressed.
scan_directions ==
    \E raw \in DirSamples :
        /\ ScanCall(raw, <<0, 0>>, <<0, 0>>)
        /\ UNCHANGED <<rotVars, svcVars, camVars, hookVars>>

PadNext ==
    \/ scan_directions
    \/ KeysHeldQuery

HidNext ==
    \/ scan_input
    \/ KeysDownQuery
    \/ KeysHeldQuery
    \/ KeysUpQuery
    \/ TouchQuery
    \/ CircleQuery

(***************************************************************************)
(* The camera: set-up, take_picture, play_shutter_sound                    *)
(***************************************************************************)

WIDTH == 400

HEIGHT == 240

\* const BUF_SIZE: usize = WIDTH * HEIGHT * 2;
BUF_SIZE == WIDTH * HEIGHT * 2

\* The largest width or height the capture call of the service layer takes.
MaxCaptureDim == 32767

\* The six setter calls of the set-up block, in the order it makes them.
SettingOrder ==
    <<"view_size", "output_format", "noise_filter", "auto_exposure",
      "auto_white_balance", "trimming">>

SettingNames == {SettingOrder[k] : k \in DOMAIN SettingOrder}

\* The values the set-up block of main passes.
MainOptions ==
    [view_size |-> "TopLCD", output_format |-> "Rgb565",
     noise_filter |-> "true", auto_exposure |-> "true",
     auto_white_balance |-> "true", trimming |-> "false"]

\* Another set of values, for a configuration applied again.
OtherOptions ==
    [view_size |-> "BottomLCD", output_format |-> "Yuv422",
     noise_filter |-> "false", auto_exposure |-> "false",
     auto_white_balance |-> "false", trimming |-> "true"]

OptionSets == {MainOptions, OtherOptions}

\* One setter call: the setting takes the value when the call succeeds and
\* keeps its value when it fails.
SetSetting(st, name, value, ok) ==
    IF ok THEN [st EXCEPT ![name] = value] ELSE st

\* The set-up block from its k-th call on; the call number failAt fails
\* (none when failAt is beyond the last call), and expect() stops there.
RECURSIVE ApplySettings_GoesOn(_, _, _, _)
ApplySettings_GoesOn(st, opts, k, failAt) ==
    IF k > Len(SettingOrder)
    THEN [settings |-> st, ok |-> failAt > Len(SettingOrder),
          at |-> IF failAt > Len(SettingOrder) THEN 0 ELSE failAt,
          calls |-> Len(SettingOrder)]
    ELSE ApplySettings_GoesOn(
             SetSetting(st, SettingOrder[k], opts[SettingOrder[k]],
                        k # failAt),
             opts, k + 1, failAt)

RECURSIVE ApplySettings(_, _, _, _)
ApplySettings(st, opts, k, failAt) ==
    IF k > Len(SettingOrder)
    THEN [settings |-> st, ok |-> TRUE, at |-> 0, calls |-> k - 1]
    ELSE LET name == SettingOrder[k]
             st1 == SetSetting(st, name, opts[name], k # failAt)
         IN  IF k = failAt
             THEN [settings |-> st1, ok |-> FALSE, at |-> k, calls |-> k]
             ELSE ApplySettings(st1, opts, k + 1, failAt)

NoCapture == [n |-> 0, len |-> 0, w |-> 0, h |-> 0, result |-> "none"]

\* The arguments take_picture is tried on: those of main, buffers too short
\* and too long for the dimensions, and dimensions beyond MaxCaptureDim.
CaptureArgs ==
    { [len |-> BUF_SIZE, w |-> WIDTH, h |-> HEIGHT],
      [len |-> BUF_SIZE - 1, w |-> WIDTH, h |-> HEIGHT],
      [len |-> BUF_SIZE + 2, w |-> WIDTH, h |-> HEIGHT],
      [len |-> 0, w |-> 1, h |-> 1],
      [len |-> 2, w |-> 1, h |-> 1],
      [len |-> 80000, w |-> 40000, h |-> 1],
      [len |-> 2, w |-> 40000, h |-> 1] }

CamInit ==
    /\ camState = "Unconfigured"
    /\ settings = [name \in SettingNames |-> "unset"]
    /\ cfgCall = [n |-> 0, opts |-> MainOptions, failAt |-> 0,
                  old |-> [name \in SettingNames |-> "unset"]]
    /\ cfgResult = [ok |-> TRUE, at |-> 0]
    /\ capCall = NoCapture
    /\ buf = "zeroed"
    /\ hwCalls = [set |-> 0, capture |-> 0, sound |-> 0]
    /\ sound = "none"
    /\ nOps = 0

\* // Camera setup. The six setters, each followed by expect().
Configure ==
    /\ camState # "Capturing"
    /\ nOps < MaxOps
    /\ \E opts \in OptionSets : \E failAt \in 1 .. Len(SettingOrder) + 1 :
          LET r == ApplySettings(settings, opts, 1, failAt)
          IN  /\ settings' = r.settings
              /\ cfgResult' = [ok |-> r.ok, at |-> r.at]
              /\ hwCalls' = [hwCalls EXCEPT !.set = @ + r.calls]
              /\ camState' = IF r.ok THEN "Configured" ELSE camState
              /\ cfgCall' = [n |-> cfgCall.n + 1, opts |-> opts,
                             failAt |-> failAt, old |-> settings]
    /\ nOps' = nOps + 1
    /\ UNCHANGED <<capCall, buf, sound>>
    /\ UNCHANGED <<rotVars, svcVars, hidVars, hookVars>>

\* take_picture up to the point where it blocks: the arguments are checked
\* before the capture is issued.
TakePictureBegin_ChecksLate(a) ==
    /\ hwCalls' = [hwCalls EXCEPT !.capture = @ + 1]
    /\ IF a.len # a.w * a.h * 2
       THEN /\ capCall' = [n |-> capCall.n + 1, len |-> a.len, w |-> a.w,
                           h |-> a.h, result |-> "InvalidBufferSize"]
            /\ UNCHANGED <<camState, buf>>
       ELSE /\ capCall' = [n |-> capCall.n + 1, len |-> a.len, w |-> a.w,
                           h |-> a.h, result |-> "pending"]
            /\ camState' = "Capturing"
            /\ buf' = "undefined"

TakePictureBegin(a) ==
    IF a.len # a.w * a.h * 2
    THEN /\ capCall' = [n |-> capCall.n + 1, len |-> a.len, w |-> a.w,
                        h |-> a.h, result |-> "InvalidBufferSize"]
         /\ UNCHANGED <<camState, buf, hwCalls>>
    ELSE IF a.w > MaxCaptureDim \/ a.h > MaxCaptureDim
    THEN /\ capCall' = [n |-> capCall.n + 1, len |-> a.len, w |-> a.w,
                        h |-> a.h, result |-> "DimensionOutOfRange"]
         /\ UNCHANGED <<camState, buf, hwCalls>>
    ELSE /\ capCall' = [n |-> capCall.n + 1, len |-> a.len, w |-> a.w,
                        h |-> a.h, result |-> "pending"]
         /\ camState' = "Capturing"
         /\ buf' = "undefined"
         /\ hwCalls' = [hwCalls EXCEPT !.capture = @ + 1]

\* camera.take_picture(&mut buf, width, height, WAIT_TIMEOUT)
TakePicture ==
    /\ camState = "Configured"
    /\ nOps < MaxOps
    /\ \E a \in CaptureArgs : TakePictureBegin(a)
    /\ nOps' = nOps + 1
    /\ UNCHANGED <<settings, cfgCall, cfgResult, sound>>
    /\ UNCHANGED <<rotVars, svcVars, hidVars, hookVars>>

\* The state the camera is left in when the blocking wait ends.
StateAfterCapture_Falls(outcome) ==
    IF outcome = "Ok" THEN "Configured" ELSE "Unconfigured"

StateAfterCapture(outcome) == "Configured"

\* The blocking wait of take_picture ends: with the picture, with a service
\* error, or when the timeout has elapsed.
TakePictureEnd ==
    /\ camState = "Capturing"
    /\ \E outcome \in {"Ok", "ServiceError", "CaptureTimeout"} :
          /\ capCall' = [capCall EXCEPT !.result = outcome]
          /\ buf' = IF outcome = "Ok" THEN "image" ELSE "undefined"
          /\ camState' = StateAfterCapture(outcome)
    /\ UNCHANGED <<settings, cfgCall, cfgResult, hwCalls, sound, nOps>>
    /\ UNCHANGED <<rotVars, svcVars, hidVars, hookVars>>

\* cam.play_shutter_sound(ShutterSound::Normal)
PlayShutterSound ==
    /\ camState # "Capturing"
    /\ nOps < MaxOps
    /\ hwCalls' = [hwCalls EXCEPT !.sound = @ + 1]
    /\ \E ok \in BOOLEAN : sound' = IF ok THEN "Ok" ELSE "ServiceError"
    /\ nOps' = nOps + 1
    /\ UNCHANGED <<camState, settings, cfgCall, cfgResult, capCall, buf>>
    /\ UNCHANGED <<rotVars, svcVars, hidVars, hookVars>>

CamNext ==
    \/ Configure
    \/ TakePicture
    \/ TakePictureEnd
    \/ PlayShutterSound

(***************************************************************************)
(* The panic hook of use_panic_handler                                     *)
(***************************************************************************)

\* The lines the hook prints; default_hook prints the panic itself.
PanicLine == [line |-> "panic", code |-> 0]

PressSelectLine == [line |-> "Press SELECT to exit the software", code |-> 0]

HidErrorLine(rc) ==
    [line |-> "Error while intializing Hid controller during panic",
     code |-> rc]

\* The raw key sets the scans around a panic are tried on.
HookSamples == { {}, {"KEY_A"}, {"KEY_SELECT"}, {"KEY_A", "KEY_SELECT"} }

\* No panic yet: the hook is installed and has not run.
HookInit ==
    /\ hookPc = "armed"
    /\ onMainThread = FALSE
    /\ consoleExists = FALSE
    /\ hookTried = FALSE
    /\ hookHandle = 0
    /\ hookOut = <<>>
    /\ hookScanned = FALSE
    /\ appHandles = {}

\* The application acquires a Hid handle before the panic.
AppHidNew ==
    /\ hookPc = "armed"
    /\ TotalInit < MaxNew
    /\ \E rc \in StatusCodes :
          /\ NewCall("Hid", rc)
          /\ appHandles' = IF ResultCodeOk(rc)
                           THEN appHandles \cup {Len(handles["Hid"]) + 1}
                           ELSE appHandles
    /\ UNCHANGED <<hookPc, onMainThread, consoleExists, hookTried,
                   hookHandle, hookOut, hookScanned>>
    /\ UNCHANGED <<rotVars, hidVars, camVars>>

\* The application drops one of its Hid handles before the panic.
AppHidDrop ==
    /\ hookPc = "armed"
    /\ \E k \in appHandles \cap LiveSet("Hid") :
          DropCall("Hid", k, "return")
    /\ UNCHANGED <<rotVars, hidVars, camVars, hookVars>>

\* The application scans with a handle it holds, before the panic.
AppScanInput ==
    /\ hookPc = "armed"
    /\ appHandles \cap LiveSet("Hid") # {}
    /\ \E raw \in HookSamples : ScanCall(raw, <<0, 0>>, <<0, 0>>)
    /\ UNCHANGED <<rotVars, svcVars, camVars, hookVars>>

\* The condition that ends the hook's loop.
HookBreaks_AnyKey(keys) == keys # {}

HookBreaks(keys) == Contains(keys, KeyPad_SELECT)

\* A panic: the hook from its entry up to the loop, on the installing
\* thread or another one (main), with the answer con of Console::exists().
panic_hook ==
    /\ hookPc = "armed"
    /\ \E main \in BOOLEAN : \E con \in BOOLEAN :
          /\ onMainThread' = main
          /\ consoleExists' = con
          /\ IF main /\ con
             THEN \E rc \in StatusCodes :
                     /\ NewCall("Hid", rc)
                     /\ hookTried' = TRUE
                     /\ IF ResultCodeOk(rc)
                        THEN /\ hookHandle' = Len(handles["Hid"]) + 1
                             /\ hookOut' = <<PanicLine, PressSelectLine>>
                             /\ hookPc' = "waiting"
                        ELSE /\ hookHandle' = 0
                             /\ hookOut' = <<PanicLine, PressSelectLine,
                                             HidErrorLine(rc)>>
                             /\ hookPc' = "returned"
             ELSE /\ hookOut' = <<PanicLine>>
                  /\ hookPc' = "returned"
                  /\ UNCHANGED <<hookTried, hookHandle>>
                  /\ UNCHANGED svcVars
    /\ UNCHANGED <<hookScanned, appHandles>>
    /\ UNCHANGED <<rotVars, hidVars, camVars>>

\* One turn of the hook's loop: scan_input, keys_down, and on SELECT the
\* break, which ends the scope of hid and returns from the hook.
panic_hook_loop ==
    /\ hookPc = "waiting"
    /\ \E raw \in HookSamples : ScanCall(raw, <<0, 0>>, <<0, 0>>)
    /\ IF HookBreaks(keys_down')
       THEN /\ DropCall("Hid", hookHandle, "return")
            /\ hookPc' = "returned"
       ELSE /\ UNCHANGED svcVars
            /\ UNCHANGED hookPc
    /\ hookScanned' = TRUE
    /\ UNCHANGED <<onMainThread, consoleExists, hookTried, hookHandle,
                   hookOut, appHandles>>
    /\ UNCHANGED <<rotVars, camVars>>

HookNext ==
    \/ AppHidNew
    \/ AppHidDrop
    \/ AppScanInput
    \/ panic_hook
    \/ panic_hook_loop

(***************************************************************************)
(* Specifications                                                          *)
(***************************************************************************)

InitHook == HookInit /\ RotIdle /\ SvcInit /\ HidInit /\ CamInit

InitRotate == RotInit /\ SvcInit /\ HidInit /\ CamInit /\ HookInit

InitSvc == SvcInit /\ RotIdle /\ HidInit /\ CamInit /\ HookInit

InitHid == HidInit /\ RotIdle /\ SvcInit /\ CamInit /\ HookInit

InitCam == CamInit /\ RotIdle /\ SvcInit /\ HidInit /\ HookInit

SpecRotate == InitRotate /\ [][RotNext]_vars

SpecSvc == InitSvc /\ [][SvcNext]_vars

SpecHid == InitHid /\ [][HidNext]_vars

SpecPad == InitHid /\ [][PadNext]_vars

SpecHook == InitHook /\ [][HookNext]_vars

SpecCam == InitCam /\ [][CamNext]_vars

\* The wait of take_picture is bounded by its timeout, so a capture that
\* has begun does end.
SpecCamFair == SpecCam /\ WF_camVars(TakePictureEnd)

(***************************************************************************)
(* Claims about the service handles                                        *)
(***************************************************************************)

C4_ExitOncePerHandle ==
    \A s \in Services :
        /\ \A k \in DOMAIN handles[s] :
              /\ handles[s][k].st = "live" =>
                    handles[s][k].exits = 0 /\ handles[s][k].path = "none"
              /\ handles[s][k].st = "dropped" =>
                    handles[s][k].exits = 1 /\ handles[s][k].path \in ExitPaths
        /\ nExit[s] = Len(handles[s]) - Live(s)
        /\ nExit[s] <= Len(handles[s])
        /\ result[s].op = "drop" => result[s] = Unit

C4_Witness ==
    \E s \in Services :
        /\ Len(handles[s]) = 2
        /\ handles[s][1].st = "dropped" /\ handles[s][1].path = "unwind"
        /\ handles[s][2].st = "live"
        /\ exitFailed[s]
        /\ result[s].op = "drop"

\* C5: new() returns the failure status of its init call unchanged in the
\* error and constructs no handle, so no teardown call answers a failed
\* acquisition; on the success status it returns a handle.
C5_NewPreservesStatus ==
    \A s \in Services :
        /\ Len(handles[s]) = nOk[s]
        /\ nExit[s] <= nOk[s]
        /\ result[s].op = "new" =>
              IF status[s] # 0
              THEN /\ result[s] = [op |-> "new", ok |-> FALSE,
                                   code |-> status[s]]
                   /\ Live(s) = liveAtCall[s]
              ELSE /\ result[s].ok
                   /\ Live(s) = liveAtCall[s] + 1
                   /\ handles[s][Len(handles[s])].st = "live"

C5_Witness ==
    \E s \in Services :
        /\ result[s] = [op |-> "new", ok |-> FALSE, code |-> -2]
        /\ status[s] = -2
        /\ nInit[s] = 2
        /\ Len(handles[s]) = 1

(***************************************************************************)
(* Claims about the Hid queries                                            *)
(***************************************************************************)

\* The raw keys of the last scan and of the scan before it.
CurRaw == hist[Len(hist)]

PrevRaw == IF Len(hist) >= 2 THEN hist[Len(hist) - 1] ELSE {}

\* C6, as stated: after each scan, with cur and prev the raw key sets of
\* this scan and of the one before, keys_down() = cur \ prev,
\* keys_held() = cur and keys_up() = prev \ cur.
C6_EdgesOfRawKeys ==
    Len(hist) >= 1 =>
        /\ keys_down = CurRaw \ PrevRaw
        /\ keys_held = CurRaw
        /\ keys_up = PrevRaw \ CurRaw

\* C6, amended: the three results are those sets restricted to the bits
\* KeyPad names; for the raw sequence {A}, {A,B}, {B} the second frame gives
\* keys_down = {B} and keys_held = {A,B} and the third keys_up = {A}; nothing
\* older than the previous scan enters.
C6_EdgesOfNamedKeys ==
    Len(hist) >= 1 =>
        /\ keys_down = (CurRaw \ PrevRaw) \cap KeyPadAll
        /\ keys_held = CurRaw \cap KeyPadAll
        /\ keys_up = (PrevRaw \ CurRaw) \cap KeyPadAll
        /\ (PrevRaw = {"KEY_A"} /\ CurRaw = {"KEY_A", "KEY_B"}) =>
              keys_down = {"KEY_B"} /\ keys_held = {"KEY_A", "KEY_B"}
        /\ (PrevRaw = {"KEY_A", "KEY_B"} /\ CurRaw = {"KEY_B"}) =>
              keys_up = {"KEY_A"}

C6_Witness ==
    /\ hist = << {"KEY_A"}, {"KEY_A", "KEY_B"}, {"KEY_B"} >>
    /\ keys_up = {"KEY_A"}
    /\ keys_down = {}
    /\ keys_held = {"KEY_B"}

\* C7: between two scans the queries, asked any number of times in any
\* order, give the same answers and leave the stored input state as the
\* last scan left it.
C7_QueriesStable ==
    /\ Snapshot = snapAtScan
    /\ \A q \in Queries : seen[q] # NoAnswer => seen[q] = <<Answer(q)>>

C7_Witness ==
    /\ Len(hist) >= 2
    /\ \A q \in Queries : seen[q] # NoAnswer
    /\ seen["keys_down"] = << {"KEY_B"} >>
    /\ seen["keys_up"] = << {} >>
    /\ seen["touch_position"] = << <<120, 80>> >>
    /\ seen["circlepad_position"] = << <<-20, 35>> >>

(***************************************************************************)
(* Claims about the KeyPad flags                                           *)
(***************************************************************************)

DirectionFlags ==
    { <<KeyPad_UP, KeyPad_DPAD_UP, KeyPad_CPAD_UP>>,
      <<KeyPad_DOWN, KeyPad_DPAD_DOWN, KeyPad_CPAD_DOWN>>,
      <<KeyPad_LEFT, KeyPad_DPAD_LEFT, KeyPad_CPAD_LEFT>>,
      <<KeyPad_RIGHT, KeyPad_DPAD_RIGHT, KeyPad_CPAD_RIGHT>> }

CStickBits ==
    KeyPad_CSTICK_UP \cup KeyPad_CSTICK_DOWN \cup KeyPad_CSTICK_LEFT
        \cup KeyPad_CSTICK_RIGHT

\* C11: each of KeyPad::UP, DOWN, LEFT, RIGHT is exactly the union of its
\* D-Pad bit and its circle-pad bit: two bits, no C-Stick bit, equal to
\* neither single bit; so the keys held contain the flag exactly when the
\* last scan showed both of its bits.
C11_DirectionFlagsAreUnions ==
    \A f \in DirectionFlags :
        /\ f[1] = f[2] \cup f[3]
        /\ Cardinality(f[1]) = 2
        /\ f[1] \cap CStickBits = {}
        /\ f[1] # f[2] /\ f[1] # f[3]
        /\ f[1] \subseteq KeyPadAll
        /\ Len(hist) >= 1 =>
              (Contains(keys_held, f[1]) <=> (f[2] \cup f[3]) \subseteq CurRaw)

C11_Witness ==
    /\ Len(hist) >= 2
    /\ PrevRaw = {"KEY_DUP", "KEY_CSTICK_UP"}
    /\ ~Contains(from_bits_truncate(PrevRaw), KeyPad_UP)
    /\ CurRaw = {"KEY_DUP", "KEY_CPAD_UP"}
    /\ Contains(keys_held, KeyPad_UP)
    /\ ~Contains(keys_held, KeyPad_DOWN)

(***************************************************************************)
(* Claims about the camera                                                 *)
(***************************************************************************)

\* C8: take_picture with a buffer whose length is not width*height*2 fails
\* with InvalidBufferSize and makes no hardware call: the camera state, the
\* buffer and the record of service calls are as before the call.
C8_WrongSizeRejected ==
    [][ (capCall'.n # capCall.n /\ capCall'.len # capCall'.w * capCall'.h * 2)
        => /\ capCall'.result = "InvalidBufferSize"
           /\ camState' = camState
           /\ buf' = buf
           /\ hwCalls' = hwCalls
           /\ settings' = settings ]_vars

C8_Witness ==
    /\ capCall.n = 2
    /\ capCall.result = "InvalidBufferSize"
    /\ capCall.len = BUF_SIZE - 1 /\ capCall.w = WIDTH /\ capCall.h = HEIGHT
    /\ camState = "Configured"
    /\ buf = "image"
    /\ hwCalls.capture = 1

\* C9: the camera goes Unconfigured -> Configured -> Capturing -> Configured:
\* a capture that has begun ends in Configured whether it succeeds, fails
\* or times out, and does end; the state never falls back to Unconfigured;
\* settings are applied only while no capture is under way; and
\* play_shutter_sound leaves the state alone.
C9_CameraStateMachine ==
    /\ [][ /\ camState = "Capturing" => camState' = "Configured"
           /\ camState' = "Capturing" => camState = "Configured"
           /\ camState' = "Unconfigured" => camState = "Unconfigured"
           /\ (settings' # settings \/ hwCalls'.set # hwCalls.set)
                 => camState # "Capturing"
           /\ hwCalls'.sound # hwCalls.sound => camState' = camState ]_vars
    /\ (camState = "Capturing") ~> (camState = "Configured")

C9_Witness ==
    /\ camState = "Configured"
    /\ capCall.result = "CaptureTimeout"
    /\ buf = "undefined"
    /\ hwCalls.sound = 1
    /\ cfgCall.n = 1

\* C10: the six settings are applied by six calls in order; when the k-th
\* call fails the configuration is reported failed at k, the settings of
\* the calls before k have their new values and those of the calls from k
\* on have their old values; when none fails all six have the new values.
PosOf(name) == CHOOSE k \in DOMAIN SettingOrder : SettingOrder[k] = name

C10_PartialConfiguration ==
    cfgCall.n > 0 =>
        /\ \A name \in SettingNames :
              settings[name] = IF PosOf(name) < cfgCall.failAt
                               THEN cfgCall.opts[name]
                               ELSE cfgCall.old[name]
        /\ cfgResult.ok <=> (cfgCall.failAt > Len(SettingOrder))
        /\ ~cfgResult.ok => cfgResult.at = cfgCall.failAt

C10_Witness ==
    /\ cfgCall.n = 2
    /\ ~cfgResult.ok /\ cfgResult.at = 4
    /\ cfgCall.opts = OtherOptions
    /\ settings["view_size"] = "BottomLCD"
    /\ settings["noise_filter"] = "false"
    /\ settings["auto_exposure"] = "true"
    /\ settings["trimming"] = "false"
    /\ camState = "Configured"

(***************************************************************************)
(* Claims about rotate_image_to_screen                                     *)
(***************************************************************************)

\* C1: after rotate_image_to_screen(src, dst, width, height) the destination
\* pixel i*height + (height-1-j) equals the source pixel j*width + i for all
\* i < width, j < height, and every destination pixel of 0 .. width*height-1
\* is written exactly once (never twice at any point of the loop), with no
\* access outside the two buffers.
C1_RotateBijection ==
    /\ \A k \in DOMAIN writes : writes[k] <= 1
    /\ phase = "rotated" =>
          /\ \A x \in 0 .. width - 1 : \A y \in 0 .. height - 1 :
                Pixel(framebuf, x * height + (height - 1 - y))
                    = Pixel(src, y * width + x)
          /\ \A p \in 0 .. width * height - 1 :
                writes[2 * p] = 1 /\ writes[2 * p + 1] = 1
          /\ oob = 0

C1_Witness ==
    /\ phase = "rotated"
    /\ width = 3 /\ height = 2
    /\ \A p, q \in 0 .. width * height - 1 :
          p # q => Pixel(src, p) # Pixel(src, q)
    /\ framebuf # src
    /\ Pixel(framebuf, 1) = Pixel(src, 0)

\* C2: four calls in sequence, each fed the previous destination with width
\* and height swapped, give back the buffer the first call was given.
C2_FourRotationsIdentity ==
    (pass = 4 /\ phase = "rotated") => framebuf = orig

\* C12: every 2-byte read of the loop starts at a source offset in
\* [0, width*height*2 - 2] and every 2-byte write at an even destination
\* offset in [0, width*height*2 - 2], so no access leaves either buffer of
\* width*height*2 bytes, and height-1-j never goes below zero.
C12_AccessesInBounds ==
    /\ lastRead \in 0 .. width * height * 2 - 2
    /\ lastWrite \in 0 .. width * height * 2 - 2
    /\ lastWrite % 2 = 0
    /\ lastDrawY >= 0
    /\ oob = 0

C12_Witness ==
    /\ width = 3 /\ height = 2
    /\ phase = "rotated" /\ j = height /\ pass = 1
    /\ lastRead = 2 * width * height - 2
    /\ lastWrite = (width - 1) * height * 2
    /\ lastDrawY = 0

C2_Witness ==
    /\ pass = 4 /\ phase = "rotated"
    /\ width # height
    /\ \A p, q \in 0 .. width * height - 1 :
          p # q => Pixel(orig, p) # Pixel(orig, q)
    /\ framebuf = orig
    /\ src # orig

(***************************************************************************)
(* Claims about the panic hook                                             *)
(***************************************************************************)

HookHandleRec == handles["Hid"][hookHandle]

\* C13: a hook that ran on the installing thread with a console has called
\* Hid::new; with a handle it keeps scanning while keys_down lacks SELECT,
\* and it has returned only after a scan whose keys_down contains SELECT,
\* its handle then dropped with one exit call; without a handle it has
\* printed the error and returned with no scan.  On another thread or with
\* no console it has returned with no Hid::new and no scan.
C13_PanicHookWaitsForSelect ==
    /\ hookPc # "armed" =>
          (hookTried <=> (onMainThread /\ consoleExists))
    /\ (hookPc # "armed" /\ ~hookTried) =>
          /\ hookPc = "returned"
          /\ hookHandle = 0
          /\ DOMAIN handles["Hid"] = appHandles
          /\ ~hookScanned
          /\ hookOut = <<PanicLine>>
    /\ (hookTried /\ hookHandle = 0) =>
          /\ hookPc = "returned"
          /\ ~ResultCodeOk(status["Hid"])
          /\ result["Hid"] = ErrorFrom(status["Hid"])
          /\ hookOut[Len(hookOut)] = HidErrorLine(status["Hid"])
          /\ DOMAIN handles["Hid"] = appHandles
          /\ ~hookScanned
    /\ (hookTried /\ hookHandle # 0) =>
          /\ hookHandle \in DOMAIN handles["Hid"]
          /\ hookHandle \notin appHandles
          /\ hookOut = <<PanicLine, PressSelectLine>>
    /\ hookPc = "waiting" =>
          /\ hookTried /\ hookHandle # 0
          /\ HookHandleRec.st = "live"
          /\ hookScanned => ~Contains(keys_down, KeyPad_SELECT)
    /\ (hookPc = "returned" /\ hookHandle # 0) =>
          /\ hookScanned
          /\ Contains(keys_down, KeyPad_SELECT)
          /\ "KEY_SELECT" \in CurRaw
          /\ HookHandleRec.st = "dropped"
          /\ HookHandleRec.exits = 1

\* The hook waited through a scan without SELECT and one with SELECT held
\* from before, then returned on a new press, while the application still
\* held a live handle.
C13_Witness ==
    /\ hookPc = "returned"
    /\ onMainThread /\ consoleExists
    /\ hookHandle # 0
    /\ HookHandleRec.st = "dropped"
    /\ appHandles \cap LiveSet("Hid") # {}
    /\ hookScanned
    /\ Len(hist) >= 3
    /\ "KEY_SELECT" \in hist[Len(hist) - 2]
    /\ "KEY_SELECT" \notin PrevRaw
    /\ Contains(keys_down, KeyPad_SELECT)

====
